---- MODULE Spec2Model ----
(***************************************************************************)
(* A model of pybits' arithmetic.py: BitString, Integer (equality,         *)
(* ripple-carry addition, left shift, rendering, the counting generator)   *)
(* and the two marker variants BinaryInt and TwosComplimentInt.            *)
(*                                                                         *)
(* An Integer object is a record [type, bits]; bits is the tuple `_bits`,  *)
(* least significant bit first, held as a TLA+ sequence (index 1 is bit 0).*)
(***************************************************************************)
EXTENDS Integers, Sequences, FiniteSets, TLC

VARIABLES
    a, b, c,            \* Integer objects the calls are made on
    out,                \* the outcome of the last call
    init_sequence,      \* the caller's mutable list `a` was constructed from
    constructed_from,   \* history: the content of that list when `a` was constructed
    it,                 \* an iterator opened on `a` by iter(a)
    gen,                \* a generator made by count_iter()
    counts              \* the Integers that generator has yielded so far

vars == <<a, b, c, out, init_sequence, constructed_from, it, gen, counts>>

\* The widest bit sequence the inputs are drawn from.
MaxWidth == 3

ONE == TRUE
ZERO == FALSE

BinaryInt == "BinaryInt"
TwosComplimentInt == "TwosComplimentInt"
Types == {BinaryInt, TwosComplimentInt}

BitSeqs == UNION {[1..n -> BOOLEAN] : n \in 0..MaxWidth}

\* BitString.__init__: self._bits = tuple(sequence), a copy of the argument.
BitString(type, sequence) == [type |-> type, bits |-> sequence]

IntegerObjs == {BitString(t, s) : t \in Types, s \in BitSeqs}

\* A read of self._bits (mutant: the object kept the caller's list, not a copy).
BitsAliased(self) == init_sequence
Bits(self) == self.bits

Width(self) == Len(Bits(self))

\* The full-adder table: (bit1, bit2, carry) -> (digit, carry).
BitAddCarryDropped(bit1, bit2, carry) ==
    CASE bit1 = ZERO /\ bit2 = ZERO /\ carry = ZERO -> <<ZERO, ZERO>>
      [] bit1 = ONE  /\ bit2 = ZERO /\ carry = ZERO -> <<ONE, ZERO>>
      [] bit1 = ZERO /\ bit2 = ONE  /\ carry = ZERO -> <<ONE, ZERO>>
      [] bit1 = ZERO /\ bit2 = ZERO /\ carry = ONE  -> <<ONE, ZERO>>
      [] bit1 = ONE  /\ bit2 = ONE  /\ carry = ZERO -> <<ZERO, ONE>>
      [] bit1 = ONE  /\ bit2 = ZERO /\ carry = ONE  -> <<ZERO, ZERO>>
      [] bit1 = ZERO /\ bit2 = ONE  /\ carry = ONE  -> <<ZERO, ZERO>>
      [] bit1 = ONE  /\ bit2 = ONE  /\ carry = ONE  -> <<ONE, ONE>>
bit_add(bit1, bit2, carry) ==
    CASE bit1 = ZERO /\ bit2 = ZERO /\ carry = ZERO -> <<ZERO, ZERO>>
      [] bit1 = ONE  /\ bit2 = ZERO /\ carry = ZERO -> <<ONE, ZERO>>
      [] bit1 = ZERO /\ bit2 = ONE  /\ carry = ZERO -> <<ONE, ZERO>>
      [] bit1 = ZERO /\ bit2 = ZERO /\ carry = ONE  -> <<ONE, ZERO>>
      [] bit1 = ONE  /\ bit2 = ONE  /\ carry = ZERO -> <<ZERO, ONE>>
      [] bit1 = ONE  /\ bit2 = ZERO /\ carry = ONE  -> <<ZERO, ONE>>
      [] bit1 = ZERO /\ bit2 = ONE  /\ carry = ONE  -> <<ZERO, ONE>>
      [] bit1 = ONE  /\ bit2 = ONE  /\ carry = ONE  -> <<ONE, ONE>>

\* itertools.zip_longest(s1, s2, fillvalue=ZERO): the pairs, the shorter padded.
zip_longest(s1, s2) ==
    LET n == IF Len(s1) >= Len(s2) THEN Len(s1) ELSE Len(s2)
    IN  [i \in 1..n |-> <<IF i <= Len(s1) THEN s1[i] ELSE ZERO,
                          IF i <= Len(s2) THEN s2[i] ELSE ZERO>>]

\* Integer.__eq__ (mutant: the pairs stop at the shorter operand, as zip would).
EqShortest(bits1, bits2) ==
    IF bits1.type # bits2.type THEN FALSE
    ELSE \A i \in 1..Len(Bits(bits1)) :
            i <= Len(Bits(bits2)) => Bits(bits1)[i] = Bits(bits2)[i]
Eq(bits1, bits2) ==
    IF bits1.type # bits2.type THEN FALSE
    ELSE LET pairs == zip_longest(Bits(bits1), Bits(bits2))
         IN  \A i \in 1..Len(pairs) : pairs[i][1] = pairs[i][2]

\* The loop of Integer.__add__ from pair i on, with the carry and the digits so far
\* (mutant: the carry out of the last position is appended, so the result grows).
RECURSIVE AddLoopKeepCarry(_, _, _, _)
AddLoopKeepCarry(pairs, i, carry, return_val) ==
    IF i > Len(pairs) THEN Append(return_val, carry)
    ELSE LET r == bit_add(pairs[i][1], pairs[i][2], carry)
         IN  AddLoopKeepCarry(pairs, i + 1, r[2], Append(return_val, r[1]))
RECURSIVE AddLoop(_, _, _, _)
AddLoop(pairs, i, carry, return_val) ==
    IF i > Len(pairs) THEN return_val
    ELSE LET r == bit_add(pairs[i][1], pairs[i][2], carry)
         IN  AddLoop(pairs, i + 1, r[2], Append(return_val, r[1]))

\* What a call that raised leaves behind: no value, the exception's type.
ValueError == [error |-> "ValueError"]
Raised(ret) == "error" \in DOMAIN ret

\* Integer.__add__ (mutant: no type check).
AddNoTypeCheck(bits1, bits2) ==
    BitString(bits1.type,
              AddLoop(zip_longest(Bits(bits1), Bits(bits2)), 1, ZERO, <<>>))
Add(bits1, bits2) ==
    IF bits1.type # bits2.type THEN ValueError
    ELSE BitString(bits1.type,
                   AddLoop(zip_longest(Bits(bits1), Bits(bits2)), 1, ZERO, <<>>))

\* A generator object: its frame is [st, self, count]. Before the first next()
\* the body has not run and count is unassigned.
Unassigned == [type |-> "unassigned", bits |-> <<>>]
NoGenerator == [st |-> "none", self |-> Unassigned, count |-> Unassigned]

\* Integer.count_iter called: a generator whose body has not started.
count_iter(self) == [st |-> "created", self |-> self, count |-> Unassigned]

\* increment = type(self)([ONE]) (mutant: the increment is two).
IncrementTwo(self) == BitString(self.type, <<ZERO, ONE>>)
Increment(self) == BitString(self.type, <<ONE>>)

\* count = type(self)([ZERO for _ in self._bits])
FirstCount(self) == BitString(self.type, [i \in 1..Width(self) |-> ZERO])

\* next() on a count_iter generator: the body runs to its next yield
\* ("suspended", count is the value yielded) or breaks out of the loop ("done").
GenResume(g) ==
    LET count == IF g.st = "created" THEN FirstCount(g.self)
                 ELSE Add(g.count, Increment(g.self))
    IN  IF Eq(count, g.self)
        THEN [st |-> "done", self |-> g.self, count |-> count]
        ELSE [st |-> "suspended", self |-> g.self, count |-> count]

\* [ZERO for _ in zip(self_iter, shift.count_iter())]: zip takes the next item
\* of self_iter first and then the next of the generator. pos is the number of
\* bits self_iter has handed out, n the number of pairs zip has made. zip stops
\* when self_iter is exhausted (the generator is not asked) or when the
\* generator is (the bit just taken from self_iter is dropped).
RECURSIVE ZipCount(_, _, _, _)
ZipCount(self, pos, g, n) ==
    IF pos >= Width(self) THEN [pos |-> pos, n |-> n]
    ELSE LET g2 == GenResume(g)
         IN  IF g2.st = "done" THEN [pos |-> pos + 1, n |-> n]
             ELSE ZipCount(self, pos + 1, g2, n + 1)

\* Integer.__lshift__: the ZEROs, then for each item left in self_iter the next
\* bit of a fresh iteration of self (mutant: no ZEROs are put in front).
LshiftNoZeros(self, shift) ==
    LET z == ZipCount(self, 0, count_iter(shift), 0)
    IN  BitString(self.type, SubSeq(Bits(self), 1, Width(self) - z.pos))
Lshift(self, shift) ==
    LET z == ZipCount(self, 0, count_iter(shift), 0)
        return_seq == [i \in 1..z.n |-> ZERO]
    IN  BitString(self.type,
                  return_seq \o SubSeq(Bits(self), 1, Width(self) - z.pos))

\* list.reverse()
Reverse(s) == [i \in 1..Len(s) |-> s[Len(s) + 1 - i]]

\* Integer.__str__: the characters of the string, most significant digit first.
Str(self) ==
    Reverse([i \in 1..Width(self) |-> IF Bits(self)[i] THEN "1" ELSE "0"])

----------------------------------------------------------------------------
NoCall == [op |-> "none"]
NoIterator == [st |-> "none", pos |-> 0, got |-> <<>>]

\* a == b
CallEq ==
    /\ out' = [op |-> "eq", ret |-> Eq(a, b)]
    /\ UNCHANGED <<a, b, c, init_sequence, constructed_from, it, gen, counts>>

\* a + b
CallAdd ==
    /\ out' = [op |-> "add", ret |-> Add(a, b)]
    /\ UNCHANGED <<a, b, c, init_sequence, constructed_from, it, gen, counts>>

\* (a + b) + c and a + (b + c), compared with ==. An exception raised by an
\* inner call leaves the whole expression without a value.
CallAddAdd ==
    /\ LET ab == Add(a, b)
           bc == Add(b, c)
           left == IF Raised(ab) THEN ab ELSE Add(ab, c)
           right == IF Raised(bc) THEN bc ELSE Add(a, bc)
       IN  out' = [op |-> "addadd", left |-> left, right |-> right,
                   ret |-> IF Raised(left) \/ Raised(right) THEN FALSE
                           ELSE Eq(left, right)]
    /\ UNCHANGED <<a, b, c, init_sequence, constructed_from, it, gen, counts>>

\* a << b
CallLshift ==
    /\ out' = [op |-> "lshift", ret |-> Lshift(a, b)]
    /\ UNCHANGED <<a, b, c, init_sequence, constructed_from, it, gen, counts>>

\* str(a)
CallStr ==
    /\ out' = [op |-> "str", ret |-> Str(a)]
    /\ UNCHANGED <<a, b, c, init_sequence, constructed_from, it, gen, counts>>

\* for count in a.count_iter(): ... run to the end: the generator resumed until
\* it is exhausted, the values it yielded collected in order.
RECURSIVE Drain(_, _)
Drain(g, yielded) ==
    LET g2 == GenResume(g)
    IN  IF g2.st = "done" THEN yielded ELSE Drain(g2, Append(yielded, g2.count))

\* list(a.count_iter())
CallCountIterAll ==
    /\ out' = [op |-> "count_iter", ret |-> Drain(count_iter(a), <<>>)]
    /\ UNCHANGED <<a, b, c, init_sequence, constructed_from, it, gen, counts>>

\* The caller changes the list it built `a` from: an item assigned, an item
\* appended, or the last item popped.
MutateSource ==
    /\ \/ \E i \in 1..Len(init_sequence), bit \in BOOLEAN :
            /\ init_sequence[i] # bit
            /\ init_sequence' = [init_sequence EXCEPT ![i] = bit]
       \/ \E bit \in BOOLEAN :
            /\ Len(init_sequence) < MaxWidth
            /\ init_sequence' = Append(init_sequence, bit)
       \/ /\ Len(init_sequence) > 0
          /\ init_sequence' = SubSeq(init_sequence, 1, Len(init_sequence) - 1)
    /\ UNCHANGED <<a, b, c, out, constructed_from, it, gen, counts>>

\* iter(a): BitString.__iter__ called, a new iteration that has yielded nothing.
OpenIter ==
    /\ it' = [st |-> "open", pos |-> 0, got |-> <<>>]
    /\ UNCHANGED <<a, b, c, out, init_sequence, constructed_from, gen, counts>>

\* next() on the iterator: `yield from self._bits` hands out the next bit, or
\* the iteration ends.
IterNext ==
    /\ it.st = "open"
    /\ IF it.pos < Width(a)
       THEN it' = [st |-> "open", pos |-> it.pos + 1,
                   got |-> Append(it.got, Bits(a)[it.pos + 1])]
       ELSE it' = [it EXCEPT !.st = "done"]
    /\ UNCHANGED <<a, b, c, out, init_sequence, constructed_from, gen, counts>>

\* a.count_iter(); one generator is followed at a time.
CallCountIter ==
    /\ gen.st \in {"none", "done"}
    /\ gen' = count_iter(a)
    /\ counts' = <<>>
    /\ UNCHANGED <<a, b, c, out, init_sequence, constructed_from, it>>

\* A generator of a width-w Integer is followed for at most 2^w resumptions.
RECURSIVE Pow2(_)
Pow2(n) == IF n = 0 THEN 1 ELSE 2 * Pow2(n - 1)

\* next() on the generator.
GenNext ==
    /\ gen.st \in {"created", "suspended"}
    /\ Len(counts) < Pow2(MaxWidth)
    /\ gen' = GenResume(gen)
    /\ counts' = IF gen'.st = "suspended" THEN Append(counts, gen'.count) ELSE counts
    /\ UNCHANGED <<a, b, c, out, init_sequence, constructed_from, it>>

----------------------------------------------------------------------------
\* The state after a = T(...), b = T'(...), no call made yet.
InitArith ==
    /\ a \in IntegerObjs
    /\ b \in IntegerObjs
    /\ c = b
    /\ out = NoCall
    /\ init_sequence = a.bits
    /\ constructed_from = a.bits
    /\ it = NoIterator
    /\ gen = NoGenerator
    /\ counts = <<>>

NextArith == CallEq \/ CallAdd \/ CallLshift \/ CallStr

SpecArith == InitArith /\ [][NextArith]_vars

\* Three operands of one stored width, of any variants.
InitAddAdd ==
    /\ a \in IntegerObjs
    /\ b \in {x \in IntegerObjs : Len(x.bits) = Len(a.bits)}
    /\ c \in {x \in IntegerObjs : Len(x.bits) = Len(a.bits)}
    /\ out = NoCall
    /\ init_sequence = a.bits
    /\ constructed_from = a.bits
    /\ it = NoIterator
    /\ gen = NoGenerator
    /\ counts = <<>>

NextAddAdd == CallAddAdd \/ CallAdd

SpecAddAdd == InitAddAdd /\ [][NextAddAdd]_vars

\* init_sequence = [...]; a = T(init_sequence); every call is then made on a.
InitBits ==
    /\ init_sequence \in BitSeqs
    /\ constructed_from = init_sequence
    /\ \E t \in Types : a = BitString(t, init_sequence)
    /\ b = a
    /\ c = a
    /\ out = NoCall
    /\ it = NoIterator
    /\ gen = NoGenerator
    /\ counts = <<>>

NextBits ==
    \/ MutateSource
    \/ OpenIter
    \/ IterNext
    \/ CallEq
    \/ CallAdd
    \/ CallLshift
    \/ CallStr
    \/ CallCountIterAll

SpecBits == InitBits /\ [][NextBits]_vars

\* An Integer; generators are made from it and run by a consumer that keeps
\* asking for the next value until the generator is exhausted.
InitCount ==
    /\ a \in IntegerObjs
    /\ b = a
    /\ c = a
    /\ out = NoCall
    /\ init_sequence = a.bits
    /\ constructed_from = a.bits
    /\ it = NoIterator
    /\ gen = NoGenerator
    /\ counts = <<>>

NextCount == CallCountIter \/ GenNext

SpecCount == InitCount /\ [][NextCount]_vars /\ WF_vars(GenNext)

----------------------------------------------------------------------------
(* What the claims are stated with: the number a bit sequence denotes and   *)
(* the bit it holds at a position, counted from 0, ZERO beyond its width.   *)
RECURSIVE Value(_)
Value(bits) ==
    IF bits = <<>> THEN 0 ELSE (IF Head(bits) THEN 1 ELSE 0) + 2 * Value(Tail(bits))

BitAt(bits, i) == IF i < Len(bits) THEN bits[i + 1] ELSE ZERO

Zeros(n) == [i \in 1..n |-> ZERO]

MaxOf(m, n) == IF m >= n THEN m ELSE n

\* C1: a << s returns an Integer of exactly a's stored width, whatever s is.
C1_ShiftKeepsWidth ==
    out.op = "lshift" => Len(out.ret.bits) = Len(a.bits)

\* C2: a << z, z all ZERO, returns a value equal to a under ==, also when
\* a's most significant stored bit is ONE.
C2_ShiftByZeroIsIdentity ==
    (out.op = "lshift" /\ Value(b.bits) = 0) => Eq(out.ret, a)

\* C3: a << s, s of value k, has ZERO at its low min(k, w) positions and a's
\* bit i-k at every position i with k <= i < w: its value is
\* (value(a) * 2^k) mod 2^w.
C3_ShiftValue ==
    out.op = "lshift" =>
        LET w == Len(a.bits)
            k == Value(b.bits)
        IN  /\ \A i \in 0..(w - 1) :
                  /\ i < Len(out.ret.bits)
                  /\ out.ret.bits[i + 1] = IF i < k THEN ZERO ELSE a.bits[i - k + 1]
            /\ Value(out.ret.bits) = (Value(a.bits) * Pow2(k)) % Pow2(w)

\* C4: a << s with value(s) >= width(a) raises nothing and returns width(a)
\* ZEROs, of a's variant.
C4_ShiftPastWidthIsZero ==
    (out.op = "lshift" /\ Value(b.bits) >= Len(a.bits)) =>
        /\ ~Raised(out.ret)
        /\ out.ret = BitString(a.type, Zeros(Len(a.bits)))

C4_Witness ==
    /\ out.op = "lshift"
    /\ Len(a.bits) = 2 /\ a.bits = <<ONE, ONE>>
    /\ Value(b.bits) = 2
    /\ out.ret.bits = <<ZERO, ZERO>>

\* C5: a + b of one variant is of that variant, of width
\* w = max(width(a), width(b)) and of value (value(a) + value(b)) mod 2^w.
C5_AddIsModular ==
    (out.op = "add" /\ a.type = b.type) =>
        LET w == MaxOf(Len(a.bits), Len(b.bits))
        IN  /\ ~Raised(out.ret)
            /\ out.ret.type = a.type
            /\ Len(out.ret.bits) = w
            /\ Value(out.ret.bits) = (Value(a.bits) + Value(b.bits)) % Pow2(w)

C5_Witness ==
    /\ out.op = "add" /\ a.type = b.type
    /\ Len(a.bits) < Len(b.bits)
    /\ Value(a.bits) + Value(b.bits) >= Pow2(Len(b.bits))
    /\ Len(out.ret.bits) = Len(b.bits)

\* C6: a == b is true iff b is of a's variant and the two bit sequences, the
\* shorter padded with high-order ZEROs, agree at every position below
\* max(width(a), width(b)): iff they are of one variant and of one value.
C6_EqIsPaddedAgreement ==
    out.op = "eq" =>
        /\ out.ret = (/\ a.type = b.type
                      /\ \A i \in 0..(MaxOf(Len(a.bits), Len(b.bits)) - 1) :
                            BitAt(a.bits, i) = BitAt(b.bits, i))
        /\ out.ret = (a.type = b.type /\ Value(a.bits) = Value(b.bits))
        /\ out.ret = Eq(b, a)

C6_Witness ==
    /\ out.op = "eq" /\ out.ret = TRUE
    /\ Len(a.bits) + 2 = Len(b.bits)
    /\ Value(a.bits) = 1

\* C7: a + b raises the type-mismatch error exactly when a and b are of
\* different variants, and then returns no Integer.
C7_AddRaisesOnMismatch ==
    out.op = "add" =>
        /\ Raised(out.ret) <=> a.type # b.type
        /\ Raised(out.ret) => out.ret = ValueError
        /\ ~Raised(out.ret) => out.ret \in IntegerObjs

C7_Witness ==
    /\ out.op = "add"
    /\ a.type = BinaryInt /\ b.type = TwosComplimentInt
    /\ a.bits = b.bits /\ Len(a.bits) = 2
    /\ out.ret = ValueError

\* C8: for a, b, c of one variant and one stored width,
\* (a + b) + c == a + (b + c).
C8_AddIsAssociative ==
    (/\ out.op = "addadd"
     /\ a.type = b.type /\ b.type = c.type
     /\ Len(a.bits) = Len(b.bits) /\ Len(b.bits) = Len(c.bits)) =>
        /\ ~Raised(out.left) /\ ~Raised(out.right)
        /\ out.ret = TRUE

C8_Witness ==
    /\ out.op = "addadd"
    /\ a.type = b.type /\ b.type = c.type
    /\ Len(a.bits) = 2
    /\ Value(a.bits) + Value(b.bits) < 4
    /\ Value(a.bits) + Value(b.bits) + Value(c.bits) >= 4
    /\ out.ret = TRUE

\* C9: an iteration of a yields the bits a was constructed from, in order and
\* from bit 0, whatever has since been done to the source list and whichever
\* calls have been made on a; a's rendering and its counting sequence are
\* those of the bits it was constructed from.
C9_BitsNeverChange ==
    /\ a.bits = constructed_from
    /\ it.st \in {"open", "done"} =>
          /\ it.pos <= Len(constructed_from)
          /\ it.got = SubSeq(constructed_from, 1, it.pos)
    /\ it.st = "done" => it.got = constructed_from
    /\ out.op = "str" =>
          /\ Len(out.ret) = Len(constructed_from)
          /\ \A i \in 1..Len(out.ret) :
                out.ret[i] =
                    IF constructed_from[Len(constructed_from) + 1 - i] THEN "1" ELSE "0"
    /\ out.op = "count_iter" => Len(out.ret) = Value(constructed_from)

C9_Witness ==
    /\ Len(constructed_from) = 3
    /\ Len(init_sequence) = 3
    /\ \A i \in 1..3 : init_sequence[i] # constructed_from[i]
    /\ it.st = "done"
    /\ it.got = constructed_from
    /\ out.op = "lshift"

\* C10: the generator of s.count_iter() yields Integers of s's variant of
\* values 0, 1, 2, ... in that order, none equal to s, and once started it
\* ends, having yielded exactly value(s) of them.
CountsAscending ==
    /\ Len(counts) <= Value(gen.self.bits)
    /\ \A i \in 1..Len(counts) :
          /\ counts[i].type = gen.self.type
          /\ Value(counts[i].bits) = i - 1
          /\ ~Eq(counts[i], gen.self)
    /\ gen.st = "done" => Len(counts) = Value(gen.self.bits)

C10_CountIterCountsUpToSelf ==
    /\ []CountsAscending
    /\ (gen.st \in {"created", "suspended"}) ~> (gen.st = "done")

C10_Witness ==
    /\ gen.st = "done"
    /\ Len(gen.self.bits) = 3
    /\ Len(counts) = 5
    /\ Value(counts[5].bits) = 4

====
